---- MODULE Spec2Model ----
(***************************************************************************)
(* CalDAV layer of Perfect-Here (GlassCal): the persistence operations     *)
(* that maintain createdAt/updatedAt, the cache tokens derived from them,  *)
(* the Basic-Auth gate and the method dispatcher.                          *)
(*                                                                         *)
(* Two specifications share the storage variables:                         *)
(*   Spec     the storage mutations (DatabaseStorage) under a millisecond  *)
(*            clock, each database statement one atomic step;              *)
(*   SpecDav  CalDAV requests (caldavAuth + route handlers), each storage  *)
(*            call of a request one step, interleaved with credential      *)
(*            changes and deleteCalendar.                                  *)
(***************************************************************************)
EXTENDS Integers, Sequences, FiniteSets, TLC

(***************************************************************************)
(* Bounds                                                                  *)
(***************************************************************************)
MaxCalendars == 2
MaxEvents == 2
MaxTick == 3
MaxTextLen == 3
MaxHrefs == 3
MaxSetBlocks == 2
MaxCallers == 2

CalendarIds == 1..MaxCalendars
EventIds == 1..MaxEvents

\* Clock readings (epoch milliseconds) the model samples, in increasing
\* order: 0x1, 0xc, 0xc1, then consecutive milliseconds.
Instant(i) == IF i = 1 THEN 1 ELSE IF i = 2 THEN 12 ELSE 190 + i
Instants == {Instant(i) : i \in 1..MaxTick}

NULL == 0
NoRow == [absent |-> TRUE]

VARIABLES
  clock,          \* reading of Date.now() / new Date() / SQL now(), in ms
  calendars,      \* table calendars: id -> row or NoRow
  events,         \* table events: id -> row or NoRow
  caldavShares,   \* table caldav_shares: calendarId -> row or NoRow
  nextCalendarId, \* serial of calendars.id
  nextEventId,    \* serial of events.id
  wr,             \* the storage mutation in flight (between two statements)
  lastOp,         \* log: the last completed storage mutation
  req             \* the CalDAV request in flight

vars == <<clock, calendars, events, caldavShares, nextCalendarId, nextEventId, wr, lastOp, req>>
store == <<calendars, events, caldavShares>>

(***************************************************************************)
(* Cache tokens (Cache Token Generator)                                    *)
(***************************************************************************)
Q == "\""
HexDigits == <<"0", "1", "2", "3", "4", "5", "6", "7", "8", "9", "a", "b", "c", "d", "e", "f">>

\* Number.prototype.toString(16)
RECURSIVE toString16(_)
toString16(n) ==
  IF n < 16 THEN <<HexDigits[n + 1]>>
  ELSE toString16(n \div 16) \o <<HexDigits[(n % 16) + 1]>>

\* Number.prototype.toString(10), used in template literals
RECURSIVE toString10(_)
toString10(n) ==
  IF n < 10 THEN <<HexDigits[n + 1]>>
  ELSE toString10(n \div 10) \o <<HexDigits[(n % 10) + 1]>>

generateCTag_noCreatedAt(calendar, now) ==
  LET timestamp == IF calendar.updatedAt # NULL THEN calendar.updatedAt ELSE now
  IN <<Q>> \o toString16(timestamp) \o <<Q>>

generateCTag(calendar, now) ==
  LET timestamp == IF calendar.updatedAt # NULL THEN calendar.updatedAt
                   ELSE IF calendar.createdAt # NULL THEN calendar.createdAt
                   ELSE now
  IN <<Q>> \o toString16(timestamp) \o <<Q>>

generateCollectionETag(calendar, now) ==
  LET timestamp == IF calendar.createdAt # NULL THEN calendar.createdAt ELSE now
  IN <<Q, "c">> \o toString16(timestamp) \o <<Q>>

generateEventETag(id, event, now) ==
  LET timestamp == IF event.updatedAt # NULL THEN event.updatedAt
                   ELSE IF event.createdAt # NULL THEN event.createdAt
                   ELSE now
  IN <<Q, "e", "v", "e", "n", "t", "-">> \o toString10(id) \o <<"-">> \o toString16(timestamp) \o <<Q>>

\* ctag.replace(/"/g, "")
stripQuotes(s) == SelectSeq(s, LAMBDA ch : ch # Q)

\* `urn:uuid:${calendarId}-${ctag.replace(/"/g, "")}`
syncToken(id, calendar, now) ==
  <<"urn:uuid:">> \o toString10(id) \o <<"-">> \o stripQuotes(generateCTag(calendar, now))

\* The three collection tokens a PROPFIND on calendar id reports.
collectionTokens(id, calendar, now) ==
  [ctag |-> generateCTag(calendar, now),
   etag |-> generateCollectionETag(calendar, now),
   sync |-> syncToken(id, calendar, now)]

(***************************************************************************)
(* DatabaseStorage: one action per database statement                      *)
(***************************************************************************)
IdleWr == [pc |-> "idle", kind |-> "none", ev |-> 0, cal |-> 0, target |-> 0,
           ctagBefore |-> <<>>, etagBefore |-> <<>>]
NoOp == [kind |-> "none", cal |-> 0, target |-> 0]

\* db.update(calendars).set({ updatedAt: new Date() }).where(eq(calendars.id, id))
touchCalendar_noWhere(cals, id, now) ==
  [c \in CalendarIds |-> IF cals[c] = NoRow THEN NoRow ELSE [cals[c] EXCEPT !.updatedAt = now]]

touchCalendar(cals, id, now) ==
  IF id \in CalendarIds /\ cals[id] # NoRow
  THEN [cals EXCEPT ![id].updatedAt = now]
  ELSE cals

\* The value a timestamp column takes on insert: the column default now()
\* unless the inserted object carries an explicit null.
InsertedUpdatedAt(given) == IF given = "null" THEN NULL ELSE clock

Tick ==
  /\ \E t \in Instants : t > clock /\ clock' = t
  /\ UNCHANGED <<calendars, events, caldavShares, nextCalendarId, nextEventId, wr, lastOp, req>>

\* The process stops between two statements of a mutation and starts again.
Restart ==
  /\ wr.pc # "idle"
  /\ wr' = IdleWr
  /\ UNCHANGED <<clock, calendars, events, caldavShares, nextCalendarId, nextEventId, lastOp, req>>

createCalendar ==
  /\ wr.pc = "idle"
  /\ nextCalendarId \in CalendarIds
  /\ \E given \in {"default", "null"} :
       calendars' = [calendars EXCEPT ![nextCalendarId] =
                       [createdAt |-> clock, updatedAt |-> InsertedUpdatedAt(given)]]
  /\ nextCalendarId' = nextCalendarId + 1
  /\ lastOp' = [kind |-> "createCalendar", cal |-> nextCalendarId, target |-> nextCalendarId]
  /\ UNCHANGED <<clock, events, caldavShares, nextEventId, wr, req>>

updateCalendar ==
  /\ wr.pc = "idle"
  /\ \E id \in CalendarIds :
       /\ calendars[id] # NoRow
       /\ calendars' = [calendars EXCEPT ![id] = [@ EXCEPT !.updatedAt = clock]]
       /\ lastOp' = [kind |-> "updateCalendar", cal |-> id, target |-> id]
  /\ UNCHANGED <<clock, events, caldavShares, nextCalendarId, nextEventId, wr, req>>

\* createEvent, first statement: db.insert(events).values(event).returning()
createEventInsert ==
  /\ wr.pc = "idle"
  /\ nextEventId \in EventIds
  /\ \E c \in CalendarIds, given \in {"default", "null"} :
       /\ calendars[c] # NoRow
       /\ events' = [events EXCEPT ![nextEventId] =
                       [calendarId |-> c, createdAt |-> clock,
                        updatedAt |-> InsertedUpdatedAt(given)]]
       /\ wr' = [pc |-> "touch", kind |-> "createEvent", ev |-> nextEventId, cal |-> c, target |-> c,
                 ctagBefore |-> generateCTag(calendars[c], clock), etagBefore |-> <<>>]
  /\ nextEventId' = nextEventId + 1
  /\ UNCHANGED <<clock, calendars, caldavShares, nextCalendarId, lastOp, req>>

\* updateEvent, first statement:
\* db.update(events).set({ ...updates, updatedAt: new Date() }).where(eq(events.id, id))
updateEventSet ==
  /\ wr.pc = "idle"
  /\ \E id \in EventIds :
       /\ events[id] # NoRow
       /\ \E c \in CalendarIds :
            /\ calendars[c] # NoRow
            /\ events' = [events EXCEPT ![id] =
                            [@ EXCEPT !.calendarId = c, !.updatedAt = clock]]
            /\ wr' = [pc |-> "touch", kind |-> "updateEvent", ev |-> id,
                      cal |-> events[id].calendarId, target |-> c,
                      ctagBefore |-> generateCTag(calendars[events[id].calendarId], clock),
                      etagBefore |-> generateEventETag(id, events[id], clock)]
  /\ UNCHANGED <<clock, calendars, caldavShares, nextCalendarId, nextEventId, lastOp, req>>

\* deleteEvent: getEvent(id) found the event; db.delete(events).where(eq(events.id, id))
deleteEventDelete ==
  /\ wr.pc = "idle"
  /\ \E id \in EventIds :
       /\ events[id] # NoRow
       /\ events' = [events EXCEPT ![id] = NoRow]
       /\ wr' = [pc |-> "touch", kind |-> "deleteEvent", ev |-> id,
                 cal |-> events[id].calendarId, target |-> events[id].calendarId,
                 ctagBefore |-> generateCTag(calendars[events[id].calendarId], clock),
                 etagBefore |-> generateEventETag(id, events[id], clock)]
  /\ UNCHANGED <<clock, calendars, caldavShares, nextCalendarId, nextEventId, lastOp, req>>

\* Last statement of createEvent/updateEvent/deleteEvent: the parent
\* calendar's updatedAt is set to new Date().
touchParent ==
  /\ wr.pc = "touch"
  /\ calendars' = touchCalendar(calendars, wr.target, clock)
  /\ lastOp' = [kind |-> wr.kind, cal |-> wr.cal, target |-> wr.target]
  /\ wr' = IdleWr
  /\ UNCHANGED <<clock, events, caldavShares, nextCalendarId, nextEventId, req>>

IdleReq == [pc |-> "idle"]

Init ==
  /\ clock = Instant(1)
  /\ calendars = [c \in CalendarIds |-> NoRow]
  /\ events = [e \in EventIds |-> NoRow]
  /\ caldavShares = [c \in CalendarIds |-> NoRow]
  /\ nextCalendarId = 1
  /\ nextEventId = 1
  /\ wr = IdleWr
  /\ lastOp = NoOp
  /\ req = IdleReq

Next ==
  \/ Tick
  \/ Restart
  \/ createCalendar
  \/ updateCalendar
  \/ createEventInsert
  \/ updateEventSet
  \/ deleteEventDelete
  \/ touchParent

Spec == Init /\ [][Next]_vars

(***************************************************************************)
(* Concurrent storage mutations (SpecConc)                                 *)
(*                                                                         *)
(* Several REST requests call DatabaseStorage at once.  new Date() is      *)
(* evaluated when a statement is built; the statement is applied by the    *)
(* database later, on a connection of the pool, in no order relative to    *)
(* the statements of other calls.  wr holds, per caller, the call in       *)
(* flight.  The statements on events are taken as applied where they are   *)
(* built; the statement on calendars is built in one step and applied in   *)
(* another.                                                                *)
(***************************************************************************)
Callers == 1..MaxCallers
IdleCall == [pc |-> "idle", kind |-> "none", target |-> 0, at |-> 0]

\* The caller's statement update calendars set updated_at = <at> where
\* id = <target> is built: new Date() is read here.
buildTouch(k, kind, target) ==
  wr' = [wr EXCEPT ![k] = [pc |-> "touchSent", kind |-> kind, target |-> target, at |-> clock]]

\* updateCalendar(id, updates): the one statement is built.
callUpdateCalendar ==
  /\ \E k \in Callers, id \in CalendarIds :
       /\ wr[k].pc = "idle"
       /\ calendars[id] # NoRow
       /\ buildTouch(k, "updateCalendar", id)
  /\ UNCHANGED <<clock, calendars, events, caldavShares, nextCalendarId, nextEventId, lastOp, req>>

\* createEvent: db.insert(events).values(event).returning()
callCreateEvent ==
  /\ nextEventId \in EventIds
  /\ \E k \in Callers, c \in CalendarIds :
       /\ wr[k].pc = "idle"
       /\ calendars[c] # NoRow
       /\ events' = [events EXCEPT ![nextEventId] =
                       [calendarId |-> c, createdAt |-> clock, updatedAt |-> clock]]
       /\ wr' = [wr EXCEPT ![k] = [pc |-> "eventDone", kind |-> "createEvent", target |-> c, at |-> 0]]
  /\ nextEventId' = nextEventId + 1
  /\ UNCHANGED <<clock, calendars, caldavShares, nextCalendarId, lastOp, req>>

\* updateEvent: db.update(events).set({ ...updates, updatedAt: new Date() })
\*   .where(eq(events.id, id)).returning()
callUpdateEvent ==
  /\ \E k \in Callers, id \in EventIds, c \in CalendarIds :
       /\ wr[k].pc = "idle"
       /\ events[id] # NoRow
       /\ calendars[c] # NoRow
       /\ events' = [events EXCEPT ![id] = [@ EXCEPT !.calendarId = c, !.updatedAt = clock]]
       /\ wr' = [wr EXCEPT ![k] = [pc |-> "eventDone", kind |-> "updateEvent", target |-> c, at |-> 0]]
  /\ UNCHANGED <<clock, calendars, caldavShares, nextCalendarId, nextEventId, lastOp, req>>

\* deleteEvent: getEvent(id) found the event; db.delete(events).where(eq(events.id, id))
callDeleteEvent ==
  /\ \E k \in Callers, id \in EventIds :
       /\ wr[k].pc = "idle"
       /\ events[id] # NoRow
       /\ events' = [events EXCEPT ![id] = NoRow]
       /\ wr' = [wr EXCEPT ![k] = [pc |-> "eventDone", kind |-> "deleteEvent",
                                   target |-> events[id].calendarId, at |-> 0]]
  /\ UNCHANGED <<clock, calendars, caldavShares, nextCalendarId, nextEventId, lastOp, req>>

\* The await of the statement on events returns; the statement on the parent
\* calendar is built.
touchParentBuilt ==
  /\ \E k \in Callers :
       /\ wr[k].pc = "eventDone"
       /\ buildTouch(k, wr[k].kind, wr[k].target)
  /\ UNCHANGED <<clock, calendars, events, caldavShares, nextCalendarId, nextEventId, lastOp, req>>

\* The database applies a caller's statement on calendars.
touchApplied ==
  /\ \E k \in Callers :
       /\ wr[k].pc = "touchSent"
       /\ calendars' = touchCalendar(calendars, wr[k].target, wr[k].at)
       /\ lastOp' = [kind |-> wr[k].kind, cal |-> wr[k].target, target |-> wr[k].target]
       /\ wr' = [wr EXCEPT ![k] = IdleCall]
  /\ UNCHANGED <<clock, events, caldavShares, nextCalendarId, nextEventId, req>>

\* The clock of the server process moves on.
TickConc ==
  /\ \E t \in Instants : t > clock /\ clock' = t
  /\ UNCHANGED <<calendars, events, caldavShares, nextCalendarId, nextEventId, wr, lastOp, req>>

\* Every calendar exists, created in the first millisecond; no event yet.
InitConc ==
  /\ clock = Instant(1)
  /\ calendars = [c \in CalendarIds |-> [createdAt |-> Instant(1), updatedAt |-> Instant(1)]]
  /\ events = [e \in EventIds |-> NoRow]
  /\ caldavShares = [c \in CalendarIds |-> NoRow]
  /\ nextCalendarId = MaxCalendars + 1
  /\ nextEventId = 1
  /\ wr = [k \in Callers |-> IdleCall]
  /\ lastOp = NoOp
  /\ req = IdleReq

NextConc ==
  \/ TickConc
  \/ callUpdateCalendar
  \/ callCreateEvent
  \/ callUpdateEvent
  \/ callDeleteEvent
  \/ touchParentBuilt
  \/ touchApplied

SpecConc == InitConc /\ [][NextConc]_vars

(***************************************************************************)
(* Credential store and deleteCalendar (DatabaseStorage)                   *)
(***************************************************************************)
Usernames == {"family", "work"}
Passwords == {"pw1", "pw2"}

\* createCaldavShare / updateCaldavShare, as called by the owner's REST
\* route: one credential row per calendar, its username and password set.
\* The username is the owner's choice, so two calendars may carry the same
\* one.  The write commutes with the request steps that do not read the
\* credential table, so it is taken only where a credential lookup can
\* still follow.
setCaldavShare ==
  /\ req.pc \in {"idle", "byUsername", "byCalendarId"}
  /\ wr.pc = "idle"
  /\ \E c \in CalendarIds, u \in Usernames, p \in Passwords :
       /\ calendars[c] # NoRow
       /\ caldavShares[c] # [username |-> u, password |-> p]
       /\ caldavShares' = [caldavShares EXCEPT ![c] = [username |-> u, password |-> p]]
  /\ UNCHANGED <<clock, calendars, events, nextCalendarId, nextEventId, wr, lastOp, req>>

\* deleteCalendar, second statement (the first one deletes the e-mail
\* shares): db.delete(caldavShares).where(eq(caldavShares.calendarId, id)).
\* The response of a request leaves in the turn that computed it, so no
\* statement runs between the two.
deleteCalendarShares ==
  /\ req.pc # "done"
  /\ wr.pc = "idle"
  /\ \E id \in CalendarIds :
       /\ calendars[id] # NoRow
       /\ caldavShares' = [caldavShares EXCEPT ![id] = NoRow]
       /\ wr' = [IdleWr EXCEPT !.pc = "deleteEvents", !.kind = "deleteCalendar", !.cal = id, !.target = id]
  /\ UNCHANGED <<clock, calendars, events, nextCalendarId, nextEventId, lastOp, req>>

\* db.delete(events).where(eq(events.calendarId, id))
deleteCalendarEvents ==
  /\ req.pc # "done"
  /\ wr.pc = "deleteEvents"
  /\ events' = [e \in EventIds |->
                  IF events[e] # NoRow /\ events[e].calendarId = wr.cal THEN NoRow ELSE events[e]]
  /\ wr' = [wr EXCEPT !.pc = "deleteCalendar"]
  /\ UNCHANGED <<clock, calendars, caldavShares, nextCalendarId, nextEventId, lastOp, req>>

\* db.delete(calendars).where(eq(calendars.id, id)); the foreign key of
\* caldav_shares makes the statement fail while a credential row refers to
\* the calendar.
deleteCalendarRow ==
  /\ req.pc # "done"
  /\ wr.pc = "deleteCalendar"
  /\ calendars' = IF caldavShares[wr.cal] = NoRow
                  THEN [calendars EXCEPT ![wr.cal] = NoRow]
                  ELSE calendars
  /\ wr' = IdleWr
  /\ UNCHANGED <<clock, events, caldavShares, nextCalendarId, nextEventId, lastOp, req>>

(***************************************************************************)
(* CalDAV requests: routing, caldavAuth, handlers                          *)
(***************************************************************************)
Methods == {"OPTIONS", "PROPFIND", "PROPPATCH", "REPORT", "GET", "PUT", "DELETE", "POST", "MKCALENDAR"}

\* Path patterns under /caldav.
Resources == {"root", "principals", "calendarsRoot", "calendar", "principal", "principalSub",
              "scheduleInbox", "calendarScheduleInbox", "event"}

\* Patterns with an :id segment (req.params.id is a non-empty string).
hasParamsId(resource) ==
  resource \in {"calendar", "principal", "principalSub", "calendarScheduleInbox", "event"}

\* Values of the :id segment: a calendar id, an id past the serial, or text
\* that Number() turns into NaN (written -1 here).
NotANumber == -1
PathIds == (1..(MaxCalendars + 1)) \cup {NotANumber}
\* Values of the :eventId segment, read with Number() and not tested.
PathEventIds == (1..(MaxEvents + 1)) \cup {NotANumber}

NoAuth == [absent |-> TRUE]
GivenUsernames == Usernames \cup {"ghost"}
\* parseBasicAuth: a decoded username:password pair, or null when the header
\* is missing, is not Basic, or holds no colon.
parseBasicAuth == {NoAuth} \cup [username : GivenUsernames, password : Passwords]

\* The route that takes the request, in registration order.  The first four
\* results have no caldavAuth in front of them.
route_authOnRootOptions(resource, method) ==
  CASE resource = "root" -> "rootAll"
    [] resource = "principals" -> IF method = "OPTIONS" THEN "optionsPrincipals" ELSE "principalsAll"
    [] resource = "calendarsRoot" -> IF method = "OPTIONS" THEN "optionsCalendars" ELSE "unmatched"
    [] resource = "calendar" -> IF method = "OPTIONS" THEN "optionsCalendar"
                                ELSE IF method = "GET" THEN "getCalendar" ELSE "calendarAll"
    [] resource = "principalSub" -> "principalSubAll"
    [] resource = "principal" -> "principalAll"
    [] resource \in {"scheduleInbox", "calendarScheduleInbox"} -> "scheduleStub"
    [] resource = "event" -> IF method = "GET" THEN "getEvent"
                             ELSE IF method = "OPTIONS" THEN "automaticOptions" ELSE "unmatched"

route(resource, method) ==
  CASE resource = "root" -> IF method = "OPTIONS" THEN "optionsRoot" ELSE "rootAll"
    [] resource = "principals" -> IF method = "OPTIONS" THEN "optionsPrincipals" ELSE "principalsAll"
    [] resource = "calendarsRoot" -> IF method = "OPTIONS" THEN "optionsCalendars" ELSE "unmatched"
    [] resource = "calendar" -> IF method = "OPTIONS" THEN "optionsCalendar"
                                ELSE IF method = "GET" THEN "getCalendar" ELSE "calendarAll"
    [] resource = "principalSub" -> "principalSubAll"
    [] resource = "principal" -> "principalAll"
    [] resource \in {"scheduleInbox", "calendarScheduleInbox"} -> "scheduleStub"
    [] resource = "event" -> IF method = "GET" THEN "getEvent"
                             ELSE IF method = "OPTIONS" THEN "automaticOptions" ELSE "unmatched"

Unauthenticated == {"optionsRoot", "optionsCalendars", "automaticOptions", "unmatched"}

Realm == "Basic realm=\"GlassCal CalDAV\""
Response(status, body) ==
  [status |-> status, body |-> body, wwwAuthenticate |-> "", allow |-> "", dav |-> {},
   etag |-> <<>>, entity |-> 0, calendar |-> 0, events |-> {}]
\* res.setHeader("ETag", generateEventETag(event)); res.send(generateEventICS(event, ...))
EventResource(id, event, now) ==
  [Response(200, "text/calendar") EXCEPT !.etag = generateEventETag(id, event, now), !.entity = id,
                                         !.calendar = event.calendarId, !.events = {id}]
\* A response written from the properties of calendar and, where listed is
\* not empty, from the ETags or the iCalendar text of the events listed.
CalendarResponse(status, body, calendar, listed) ==
  [Response(status, body) EXCEPT !.calendar = calendar.id, !.events = listed]
Unauthorized(message) == [Response(401, message) EXCEPT !.wwwAuthenticate = Realm]
Options(allow, dav) == [Response(200, "") EXCEPT !.allow = allow, !.dav = dav]
NoResponse == Response(0, "")

\* caldavAuth, the test that ends in 401.
authRejects(share, auth, paramsId) ==
  \/ share = NoRow
  \/ share.password # auth.password
  \/ (share.username # auth.username /\ ~paramsId)

\* caldavAuth, the response to credentials that fail the test.
rejection_leaky(share) ==
  IF share = NoRow THEN Response(403, "CalDAV not enabled for this calendar")
  ELSE Unauthorized("Invalid credentials")

rejection(share) == Unauthorized("Invalid credentials")

\* eq(events.id, NaN) is sent to the database as the text 'NaN', which is
\* no integer: the query is rejected.
QueryRejected == [rejected |-> TRUE]

\* The application's error handler, which the rejection of a middleware or
\* handler is passed to (it is registered outside the CalDAV router): 500
\* with a generic message.
errorHandler == Response(500, "Internal Server Error")

\* An exception thrown inside an async handler (a property read on an
\* undefined req.calendar, a rejected query).
Thrown == {errorHandler}

\* The handlers that await a storage call of their own.
callsStorage(handler, method, report, depth) ==
  \/ handler \in {"getCalendar", "getEvent"}
  \/ (handler = "calendarAll" /\ method = "PROPFIND" /\ depth = "1")
  \/ (handler = "calendarAll" /\ method = "REPORT" /\ report # "free-busy-query")

\* The handlers that read calendar.id before anything else.
readsCalendar(handler) ==
  handler \in {"rootAll", "principalsAll", "getCalendar", "calendarAll", "principalSubAll", "principalAll"}

\* The responses a handler can give once caldavAuth called next(); listed
\* is the result of storage.getEvents({ calendarId: calendar.id }).
handle(handler, method, report, depth, calendar, eventId, event, listed, now) ==
  IF readsCalendar(handler) /\ calendar = NoRow THEN Thrown
  ELSE CASE handler \in {"optionsPrincipals", "optionsCalendar"} ->
              {Options("OPTIONS, GET, HEAD, POST, PUT, DELETE, PROPFIND, PROPPATCH, REPORT", {"1", "2", "calendar-access"})}
         [] handler \in {"rootAll", "principalsAll"} ->
              {IF method \in {"PROPFIND", "POST"} THEN CalendarResponse(207, "multistatus", calendar, {})
               ELSE Response(501, "Method not implemented")}
         [] handler = "getCalendar" -> {CalendarResponse(200, "text/calendar", calendar, listed)}
         [] handler = "calendarAll" ->
              {IF method = "PROPFIND"
                 THEN CalendarResponse(207, "multistatus", calendar, IF depth = "1" THEN listed ELSE {})
               ELSE IF method \in {"PROPPATCH", "POST"}
                 THEN CalendarResponse(207, "multistatus", calendar, {})
               ELSE IF method = "REPORT"
                 THEN (IF report = "free-busy-query"
                         THEN CalendarResponse(200, "schedule-response", calendar, {})
                       ELSE CalendarResponse(207, "multistatus", calendar, listed))
               ELSE IF method \in {"PUT", "DELETE"} THEN Response(200, "")
               ELSE Response(501, "Method not implemented")}
         [] handler \in {"principalSubAll", "principalAll"} ->
              {IF method = "OPTIONS"
                 THEN Options("OPTIONS, PROPFIND, REPORT",
                              {"1", "2", "calendar-access", "calendar-proxy", "calendar-schedule"})
               ELSE IF method = "PROPFIND" THEN CalendarResponse(207, "multistatus", calendar, {})
               ELSE IF method = "POST" /\ handler = "principalAll"
                 THEN CalendarResponse(207, "multistatus", calendar, {})
               ELSE Response(501, "Method not implemented")}
         [] handler = "scheduleStub" -> {Response(200, "")}
         [] handler = "getEvent" ->
              IF event = QueryRejected THEN Thrown
              ELSE IF event = NoRow THEN {Response(404, "Event not found")}
              ELSE IF calendar = NoRow THEN Thrown
              ELSE IF event.calendarId # calendar.id THEN {Response(404, "Event not found")}
              ELSE {EventResource(eventId, event, now)}

\* The response of a route that has no caldavAuth in front of it.
respondUnauthenticated(handler) ==
  CASE handler = "optionsRoot" ->
         Options("GET, HEAD, OPTIONS, PROPFIND, REPORT, PUT, DELETE", {"1", "2", "calendar-access", "addressbook"})
    [] handler = "optionsCalendars" ->
         Options("OPTIONS, GET, HEAD, PROPFIND, REPORT", {"1", "2", "calendar-access", "addressbook"})
    [] handler = "automaticOptions" -> Options("GET,HEAD", {})
    [] handler = "unmatched" -> Response(404, "Not found")

ReqFields(method, resource, id, eventId, report, depth, auth) ==
  [pc |-> "routed", method |-> method, resource |-> resource, id |-> id, eventId |-> eventId,
   report |-> report, depth |-> depth, auth |-> auth, handler |-> route(resource, method),
   share |-> NoRow, via |-> "none", calendar |-> NoRow, lookups |-> 0, failed |-> FALSE,
   resp |-> NoResponse]

\* A request arrives and is matched against the routes; a route without
\* caldavAuth answers at once, caldavAuth answers at once when parseBasicAuth
\* gives null.
Receive ==
  /\ req.pc = "idle"
  /\ \E method \in Methods, resource \in Resources, auth \in parseBasicAuth :
     \E id \in (IF hasParamsId(resource) THEN PathIds ELSE {0}),
        eventId \in (IF resource = "event" THEN PathEventIds ELSE {0}),
        report \in (IF method = "REPORT" /\ resource = "calendar"
                     THEN {"calendar-query", "free-busy-query"} ELSE {"none"}),
        depth \in (IF method = "PROPFIND" /\ resource = "calendar" THEN {"0", "1"} ELSE {"0"}) :
       LET r == ReqFields(method, resource, id, eventId, report, depth, auth) IN
         req' = IF r.handler \in Unauthenticated
                  THEN [r EXCEPT !.pc = "done", !.resp = respondUnauthenticated(r.handler)]
                ELSE IF auth = NoAuth
                  THEN [r EXCEPT !.pc = "done", !.resp = Unauthorized("Authentication required")]
                ELSE [r EXCEPT !.pc = "byUsername"]
  /\ UNCHANGED <<clock, calendars, events, caldavShares, nextCalendarId, nextEventId, wr, lastOp>>

\* The rows getCaldavShareByUsername can return: the first row of the
\* matching ones, in no guaranteed order.
getCaldavShareByUsername(username) ==
  LET found == {c \in CalendarIds : caldavShares[c] # NoRow /\ caldavShares[c].username = username}
  IN IF found = {} THEN {NoRow}
     ELSE {[calendarId |-> c, username |-> caldavShares[c].username,
            password |-> caldavShares[c].password] : c \in found}

getCaldavShare(calendarId) ==
  IF calendarId \in CalendarIds /\ caldavShares[calendarId] # NoRow
  THEN [calendarId |-> calendarId, username |-> caldavShares[calendarId].username,
        password |-> caldavShares[calendarId].password]
  ELSE NoRow

getCalendar(id) ==
  IF id \in CalendarIds /\ calendars[id] # NoRow
  THEN [id |-> id, createdAt |-> calendars[id].createdAt, updatedAt |-> calendars[id].updatedAt]
  ELSE NoRow

getEvent(id) ==
  IF id = NotANumber THEN QueryRejected
  ELSE IF id \in EventIds /\ events[id] # NoRow THEN events[id] ELSE NoRow

\* storage.getEvents({ calendarId: calendar.id }), as a set of event ids.
listEvents(calendar) ==
  IF calendar = NoRow THEN {}
  ELSE {e \in EventIds : events[e] # NoRow /\ events[e].calendarId = calendar.id}

\* caldavAuth after the credential lookups: 401, or on to getCalendar.
Decide(r, share, via) ==
  IF authRejects(share, r.auth, hasParamsId(r.resource))
  THEN [r EXCEPT !.pc = "done", !.share = share, !.via = via, !.resp = rejection(share)]
  ELSE [r EXCEPT !.pc = "getCalendar", !.share = share, !.via = via]

\* caldavAuth: await storage.getCaldavShareByUsername(auth.username)
AuthByUsername ==
  /\ req.pc = "byUsername"
  /\ \E share \in getCaldavShareByUsername(req.auth.username) :
       LET r == [req EXCEPT !.lookups = @ + 1] IN
         req' = IF share = NoRow /\ hasParamsId(req.resource) /\ req.id # NotANumber
                THEN [r EXCEPT !.pc = "byCalendarId"]
                ELSE Decide(r, share, "username")
  /\ UNCHANGED <<clock, calendars, events, caldavShares, nextCalendarId, nextEventId, wr, lastOp>>

\* caldavAuth: await storage.getCaldavShare(Number(req.params.id))
AuthByCalendarId ==
  /\ req.pc = "byCalendarId"
  /\ req' = Decide([req EXCEPT !.lookups = @ + 1], getCaldavShare(req.id), "id")
  /\ UNCHANGED <<clock, calendars, events, caldavShares, nextCalendarId, nextEventId, wr, lastOp>>

AuthGetCalendar_byPathId ==
  /\ req.pc = "getCalendar"
  /\ req' = [req EXCEPT !.pc = "handler", !.lookups = @ + 1,
                        !.calendar = IF hasParamsId(req.resource) THEN getCalendar(req.id)
                                     ELSE getCalendar(req.share.calendarId)]
  /\ UNCHANGED <<clock, calendars, events, caldavShares, nextCalendarId, nextEventId, wr, lastOp>>

\* caldavAuth: req.calendar = await storage.getCalendar(caldavShare.calendarId); next()
AuthGetCalendar ==
  /\ req.pc = "getCalendar"
  /\ req' = [req EXCEPT !.pc = "handler", !.calendar = getCalendar(req.share.calendarId),
                        !.lookups = @ + 1]
  /\ UNCHANGED <<clock, calendars, events, caldavShares, nextCalendarId, nextEventId, wr, lastOp>>

\* The route handler runs and responds.
Handle ==
  /\ req.pc = "handler"
  /\ \E resp \in handle(req.handler, req.method, req.report, req.depth, req.calendar, req.eventId,
                         getEvent(req.eventId), listEvents(req.calendar), clock) :
       req' = [req EXCEPT !.pc = "done", !.resp = resp]
  /\ UNCHANGED <<clock, calendars, events, caldavShares, nextCalendarId, nextEventId, wr, lastOp>>

\* The requests that are inside an await of a storage call.
awaitsStorage ==
  \/ req.pc \in {"byUsername", "byCalendarId", "getCalendar"}
  \/ (req.pc = "handler" /\ callsStorage(req.handler, req.method, req.report, req.depth))

StorageFails_retried ==
  /\ awaitsStorage
  /\ req.lookups < 4
  /\ req' = [req EXCEPT !.lookups = @ + 1, !.failed = TRUE]
  /\ UNCHANGED <<clock, calendars, events, caldavShares, nextCalendarId, nextEventId, wr, lastOp>>

\* The awaited storage call rejects (the connection is lost): the async
\* function ends there, and the rejection goes to the error handler.
StorageFails ==
  /\ awaitsStorage
  /\ req' = [req EXCEPT !.pc = "done", !.lookups = @ + 1, !.failed = TRUE, !.resp = errorHandler]
  /\ UNCHANGED <<clock, calendars, events, caldavShares, nextCalendarId, nextEventId, wr, lastOp>>

\* The response is on the wire; the next request may arrive.
Finish ==
  /\ req.pc = "done"
  /\ req' = IdleReq
  /\ UNCHANGED <<clock, calendars, events, caldavShares, nextCalendarId, nextEventId, wr, lastOp>>

RequestStep == Receive \/ AuthByUsername \/ AuthByCalendarId \/ AuthGetCalendar \/ Handle \/ Finish

\* The tables as the program leaves them after every calendar was created
\* and each was given one event per remaining event id, all in the first
\* millisecond; no credential is stored yet.
InitDav ==
  /\ clock = Instant(1)
  /\ calendars = [c \in CalendarIds |-> [createdAt |-> Instant(1), updatedAt |-> Instant(1)]]
  /\ events = [e \in EventIds |->
                 [calendarId |-> ((e - 1) % MaxCalendars) + 1, createdAt |-> Instant(1),
                  updatedAt |-> Instant(1)]]
  /\ caldavShares = [c \in CalendarIds |-> NoRow]
  /\ nextCalendarId = MaxCalendars + 1
  /\ nextEventId = MaxEvents + 1
  /\ wr = IdleWr
  /\ lastOp = NoOp
  /\ req = IdleReq

NextDav ==
  \/ setCaldavShare
  \/ deleteCalendarShares
  \/ deleteCalendarEvents
  \/ deleteCalendarRow
  \/ Receive
  \/ AuthByUsername
  \/ AuthByCalendarId
  \/ AuthGetCalendar
  \/ Handle
  \/ Finish

SpecDav == InitDav /\ [][NextDav]_vars

\* SpecDav with storage calls that may fail.
NextDavFail ==
  \/ setCaldavShare
  \/ deleteCalendarShares
  \/ deleteCalendarEvents
  \/ deleteCalendarRow
  \/ Receive
  \/ AuthByUsername
  \/ AuthByCalendarId
  \/ AuthGetCalendar
  \/ Handle
  \/ StorageFails
  \/ Finish

SpecDavFail == InitDav /\ [][NextDavFail]_vars

(***************************************************************************)
(* PROPFIND, REPORT and PROPPATCH on a calendar collection (SpecProps)     *)
(*                                                                         *)
(* The request is taken where caldavAuth hands it to the handler of        *)
(* /calendars/:id with req.calendar attached; req holds the request and    *)
(* its response.  The handler reads the events in one query, so it is one  *)
(* step.                                                                   *)
(***************************************************************************)
\* String.prototype.toLowerCase on the element names the model sends.
toLowerCase(name) == IF name = "principal-URL" THEN "principal-url" ELSE name

\* parsePropfindProperties: propertyMap
propertyMap ==
  {"resourcetype", "getetag", "getcontenttype", "displayname", "current-user-principal",
   "current-user-privilege-set", "supported-report-set", "owner", "sync-token", "principal-url",
   "calendar-home-set", "calendar-description", "supported-calendar-component-set",
   "email-address-set", "getctag", "schedule-tag", "created-by", "updated-by"}

\* Element names a PROPFIND body may carry inside its prop element.
PropfindNames ==
  {"resourcetype", "getetag", "getcontenttype", "getctag", "calendar-color", "calendar-order",
   "principal-URL", "calendar-home-set"}

\* A request body: none, XML without a prop element, or a prop element with
\* a set of property elements.
NoBody == [kind |-> "none", names |-> {}]
NoPropElement == [kind |-> "noprop", names |-> {}]
PropElement(names) == [kind |-> "prop", names |-> names]
PropfindBodies == {NoBody, NoPropElement} \cup {PropElement(n) : n \in SUBSET PropfindNames}

\* parsePropfindProperties: the names, lower-cased; a name of propertyMap
\* stands for itself, any other for its lower-cased form.
parsePropfindProperties(body) ==
  IF body.kind # "prop" THEN {}
  ELSE {toLowerCase(n) : n \in body.names}

\* originalCase.get(normalized) || prop
originalCase(body, prop) ==
  IF \E n \in body.names : toLowerCase(n) = prop
  THEN CHOOSE n \in body.names : toLowerCase(n) = prop
  ELSE prop

propfindRequested_noDefault(body) == parsePropfindProperties(body)

\* PROPFIND /calendars/:id: if (requested.size === 0) requested.add('resourcetype')
propfindRequested(body) ==
  IF parsePropfindProperties(body) = {} THEN {"resourcetype"} ELSE parsePropfindProperties(body)

\* The properties the collection answers with 200.
collectionSupported ==
  {"resourcetype", "getetag", "getctag", "displayname", "sync-token", "calendar-description",
   "supported-calendar-component-set", "current-user-principal", "owner", "calendar-home-set",
   "current-user-privilege-set", "supported-report-set"}

\* The properties an event response of Depth 1 leaves out of its 404 list.
eventSkipped ==
  {"resourcetype", "displayname", "sync-token", "calendar-description",
   "supported-calendar-component-set", "getctag", "current-user-principal", "owner",
   "calendar-home-set"}

Propstat(status, props) == [status |-> status, props |-> props]
\* A propstat is written only for a non-empty list of properties.
propstatIfAny(status, props) == IF props = {} THEN <<>> ELSE <<Propstat(status, props)>>

\* One response element: href, propstats in order, top-level status (0: none).
ResponseElement(href, propstats, status) ==
  [href |-> href, propstats |-> propstats, status |-> status]

\* req.path.endsWith('/') ? `/caldav/calendars/${calendarId}/` : `/caldav/calendars/${calendarId}`
relativeHref(calendarId, slash) ==
  <<"/caldav/calendars/">> \o toString10(calendarId) \o (IF slash THEN <<"/">> ELSE <<>>)

\* `${relativeHref}event-${event.id}.ics`
eventRelativeHref(calendarId, slash, eventId) ==
  relativeHref(calendarId, slash) \o <<"event-">> \o toString10(eventId) \o <<".ics">>

\* PROPFIND /calendars/:id: the href inside C:calendar-home-set is relativeHref.
calendarHomeSet(calendarId, slash) == relativeHref(calendarId, slash)

\* storage.getEvents({ calendarId }): the ids of the calendar's events (the
\* query has no ORDER BY; the rows are taken in id order here).
getEvents(calendarId) ==
  SelectSeq([e \in 1..MaxEvents |-> e],
            LAMBDA e : events[e] # NoRow /\ events[e].calendarId = calendarId)

\* PROPFIND: the collection's response element.
propfindCollection(calendarId, slash, body) ==
  LET requested == propfindRequested(body)
      supportedProps == requested \cap collectionSupported
      unsupportedProps == requested \ supportedProps
  IN ResponseElement(relativeHref(calendarId, slash),
                     propstatIfAny(200, supportedProps)
                       \o propstatIfAny(404, {originalCase(body, p) : p \in unsupportedProps}),
                     0)

\* PROPFIND Depth 1: the response element of one event.
propfindEvent(calendarId, slash, body, eventId) ==
  LET requested == propfindRequested(body)
      eventSupportedProps == requested \cap {"getetag", "getcontenttype"}
      eventUnsupportedProps == (requested \ eventSupportedProps) \ eventSkipped
  IN ResponseElement(eventRelativeHref(calendarId, slash, eventId),
                     propstatIfAny(200, eventSupportedProps)
                       \o propstatIfAny(404, {originalCase(body, p) : p \in eventUnsupportedProps}),
                     0)

\* const depth = req.headers.depth || "0"
Depths == {"none", "0", "1", "infinity"}
depthOf_defaultOne(header) == IF header = "none" THEN "1" ELSE header

depthOf(header) == IF header = "none" THEN "0" ELSE header

Multistatus(responses) == [status |-> 207, kind |-> "multistatus", responses |-> responses]

propfindCalendar(calendarId, slash, header, body) ==
  LET found == getEvents(calendarId) IN
    Multistatus(<<propfindCollection(calendarId, slash, body)>>
                \o (IF depthOf(header) = "1"
                    THEN [i \in 1..Len(found) |-> propfindEvent(calendarId, slash, body, found[i])]
                    ELSE <<>>))

PropfindCalendar ==
  /\ req.pc = "idle"
  /\ \E c \in CalendarIds, slash \in BOOLEAN, header \in Depths, body \in PropfindBodies :
       /\ calendars[c] # NoRow
       /\ req' = [pc |-> "done", method |-> "PROPFIND", calendar |-> c, slash |-> slash,
                  depth |-> header, report |-> "none", body |-> body, hrefs |-> <<>>,
                  sets |-> <<>>, resp |-> propfindCalendar(c, slash, header, body)]
  /\ UNCHANGED <<clock, calendars, events, caldavShares, nextCalendarId, nextEventId, wr, lastOp>>

\* Element names a REPORT body may carry inside its prop element.
ReportNames == {"getetag", "calendar-data", "schedule-tag"}
ReportBodies == {NoPropElement} \cup {PropElement(n) : n \in SUBSET ReportNames}

\* parseRequestedProperties: requested
parseRequestedProperties(body) ==
  LET found == body.names \cap {"getetag", "calendar-data"} IN
    IF body.kind # "prop" \/ found = {} THEN {"getetag", "calendar-data"} ELSE found

\* parseRequestedProperties: hasScheduleTag, hasCreatedBy, hasUpdatedBy
unsupportedRequested(body) ==
  IF body.kind # "prop" THEN {}
  ELSE body.names \cap {"schedule-tag", "created-by", "updated-by"}

includeGetetag_onlyIfRequested(requested) == "getetag" \in requested

\* requested.has('getetag') || includeCalendarData
includeGetetag(requested) == "getetag" \in requested \/ "calendar-data" \in requested

\* REPORT: the response element of an event that was found.
reportEvent(href, body) ==
  LET requested == parseRequestedProperties(body) IN
    ResponseElement(href,
                    <<Propstat(200, (IF includeGetetag(requested) THEN {"getetag"} ELSE {})
                                      \cup (requested \cap {"calendar-data"}))>>
                      \o propstatIfAny(404, unsupportedRequested(body)),
                    0)

\* The href elements of a calendar-multiget body: an event resource by its
\* number (0 and numbers past the serial among them), a path that does not end
\* in event-<digits>.ics, or a mailto: address.
EventHref(id) == [kind |-> "event", id |-> id]
CollectionHref == [kind |-> "collection", id |-> 0]
MailtoHref == [kind |-> "mailto", id |-> 0]
RequestHrefs == {EventHref(n) : n \in 0..(MaxEvents + 1)} \cup {CollectionHref, MailtoHref}
HrefLists == UNION {[1..n -> RequestHrefs] : n \in 0..MaxHrefs}

\* parseMultigetHrefs: every href that does not start with mailto:
parseMultigetHrefs(hrefs) == SelectSeq(hrefs, LAMBDA h : h.kind # "mailto")

\* requestedHref.match(/event-(\d+)\.ics$/), null written 0
eventIdOf(href) == IF href.kind = "event" THEN href.id ELSE 0

reportMultiget_foundOnly(calendarId, body, hrefs) ==
  LET found == getEvents(calendarId)
      has(id) == \E i \in 1..Len(found) : found[i] = id
      requestedHrefs == SelectSeq(parseMultigetHrefs(hrefs),
                                  LAMBDA h : eventIdOf(h) # 0 /\ has(eventIdOf(h)))
  IN [i \in 1..Len(requestedHrefs) |-> reportEvent(requestedHrefs[i], body)]

\* calendar-multiget: one response element per parsed href.
reportMultiget(calendarId, body, hrefs) ==
  LET requestedHrefs == parseMultigetHrefs(hrefs)
      found == getEvents(calendarId)
      has(id) == \E i \in 1..Len(found) : found[i] = id
  IN [i \in 1..Len(requestedHrefs) |->
        IF eventIdOf(requestedHrefs[i]) # 0 /\ has(eventIdOf(requestedHrefs[i]))
        THEN reportEvent(requestedHrefs[i], body)
        ELSE ResponseElement(requestedHrefs[i], <<>>, 404)]

\* calendar-query: one response element per event of the calendar.
reportQuery(calendarId, body) ==
  LET found == getEvents(calendarId) IN
    [i \in 1..Len(found) |-> reportEvent(eventRelativeHref(calendarId, TRUE, found[i]), body)]

\* The REPORT requests: an empty body, a free-busy-query, a calendar-query, a
\* calendar-multiget with its hrefs.
ReportRequests ==
  {[report |-> "none", body |-> NoBody, hrefs |-> <<>>],
   [report |-> "free-busy-query", body |-> NoPropElement, hrefs |-> <<>>]}
  \cup {[report |-> "calendar-query", body |-> b, hrefs |-> <<>>] : b \in ReportBodies}
  \cup {[report |-> "calendar-multiget", body |-> b, hrefs |-> h] : b \in ReportBodies, h \in HrefLists}

reportCalendar(calendarId, r) ==
  IF r.report = "free-busy-query"
  THEN [status |-> 200, kind |-> "schedule-response", responses |-> <<>>]
  ELSE IF r.report = "calendar-multiget"
  THEN Multistatus(reportMultiget(calendarId, r.body, r.hrefs))
  ELSE Multistatus(reportQuery(calendarId, r.body))

ReportCalendar ==
  /\ req.pc = "idle"
  /\ \E c \in CalendarIds, r \in ReportRequests :
       /\ calendars[c] # NoRow
       /\ req' = [pc |-> "done", method |-> "REPORT", calendar |-> c, slash |-> FALSE,
                  depth |-> "none", report |-> r.report, body |-> r.body, hrefs |-> r.hrefs,
                  sets |-> <<>>, resp |-> reportCalendar(c, r)]
  /\ UNCHANGED <<clock, calendars, events, caldavShares, nextCalendarId, nextEventId, wr, lastOp>>

\* The properties a PROPPATCH body may set, and its set elements in order.
AppleNS == "http://apple.com/ns/ical/"
PatchProperties ==
  {[name |-> "calendar-order", namespace |-> AppleNS],
   [name |-> "calendar-color", namespace |-> AppleNS],
   [name |-> "displayname", namespace |-> "DAV:"]}
SetBlocks == UNION {[1..n -> SUBSET PatchProperties] : n \in 0..MaxSetBlocks}

\* parseProppatchProperties: body.match(...) without the g flag takes the
\* first set element only.
parseProppatchProperties(sets) == IF sets = <<>> THEN {} ELSE sets[1]

\* PROPPATCH: both branches of the forEach push to unsupportedProps.
proppatchSupported(properties) == {prop \in properties : FALSE}
proppatchUnsupported(properties) == properties

proppatchCalendar(calendarId, slash, sets) ==
  LET properties == parseProppatchProperties(sets) IN
    Multistatus(<<ResponseElement(relativeHref(calendarId, slash),
                    propstatIfAny(200, {prop.name : prop \in proppatchSupported(properties)})
                      \o propstatIfAny(403, {prop.name : prop \in proppatchUnsupported(properties)})
                      \o (IF properties = {} THEN <<Propstat(200, {})>> ELSE <<>>),
                    0)>>)

ProppatchCalendar ==
  /\ req.pc = "idle"
  /\ \E c \in CalendarIds, slash \in BOOLEAN, sets \in SetBlocks :
       /\ calendars[c] # NoRow
       /\ req' = [pc |-> "done", method |-> "PROPPATCH", calendar |-> c, slash |-> slash,
                  depth |-> "none", report |-> "none", body |-> NoBody, hrefs |-> <<>>,
                  sets |-> sets, resp |-> proppatchCalendar(c, slash, sets)]
  /\ UNCHANGED <<clock, calendars, events, caldavShares, nextCalendarId, nextEventId, wr, lastOp>>

\* The response leaves in the turn that computed it: the statements of the
\* event mutations fall before or after it.
NextProps ==
  \/ PropfindCalendar
  \/ ReportCalendar
  \/ ProppatchCalendar
  \/ Finish
  \/ (req.pc = "idle" /\ updateEventSet)
  \/ (req.pc = "idle" /\ deleteEventDelete)
  \/ (req.pc = "idle" /\ touchParent)

SpecProps == InitDav /\ [][NextProps]_vars

(***************************************************************************)
(* Namespace prefixes of the multistatus documents (SpecNs)                *)
(*                                                                         *)
(* The request is taken as in SpecProps; xmlns holds the prefixes its body *)
(* binds to the DAV, CalDAV and CalendarServer namespaces ("" where it     *)
(* declares none).                                                         *)
(***************************************************************************)
DAV_NS == "DAV:"
CALDAV_NS == "urn:ietf:params:xml:ns:caldav"
CS_NS == "http://calendarserver.org/ns/"

\* The xmlns:<prefix>="<uri>" declarations of a request body.
Xmlns ==
  [dav : {"", "D", "A", "C", "CS", "APPLE"}, caldav : {"", "C", "CAL"}, cs : {"", "CS", "C"}]
NoXmlns == [dav |-> "", caldav |-> "", cs |-> ""]

\* extractDavPrefix: the prefix bound to DAV:, else 'D' (a body that uses a
\* prefix on its prop element has declared it).
extractDavPrefix(xmlns) == IF xmlns.dav # "" THEN xmlns.dav ELSE "D"

\* extractNamespacePrefixes: the prefixes bound to the CalDAV and the
\* CalendarServer namespace, else 'C' and 'CS'.
\* (The branch that reads the prefix off a <C:created-by> tag gives the same
\* result for a body whose tags carry the prefixes it declares.)
extractNamespacePrefixes(xmlns) ==
  [caldavPrefix |-> IF xmlns.caldav # "" THEN xmlns.caldav ELSE "C",
   csPrefix |-> IF xmlns.cs # "" THEN xmlns.cs ELSE "CS"]

\* REPORT: namespaceDecls, caldavPropPrefix, csPropPrefix
reportNamespaces(xmlns) ==
  LET davPrefix == extractDavPrefix(xmlns)
      p == extractNamespacePrefixes(xmlns)
  IN IF p.caldavPrefix = p.csPrefix /\ p.caldavPrefix = "C"
     THEN [decls |-> <<<<davPrefix, DAV_NS>>, <<"C", CALDAV_NS>>, <<"CS", CS_NS>>>>,
           caldavPropPrefix |-> "C", csPropPrefix |-> "CS"]
     ELSE IF p.csPrefix # p.caldavPrefix
     THEN [decls |-> <<<<davPrefix, DAV_NS>>, <<p.caldavPrefix, CALDAV_NS>>, <<p.csPrefix, CS_NS>>>>,
           caldavPropPrefix |-> p.caldavPrefix, csPropPrefix |-> p.csPrefix]
     ELSE [decls |-> <<<<davPrefix, DAV_NS>>, <<p.caldavPrefix, CALDAV_NS>>, <<"CS", CS_NS>>>>,
           caldavPropPrefix |-> p.caldavPrefix, csPropPrefix |-> "CS"]

\* The xmlns declarations on the multistatus root, in order.
rootDeclarations(method, xmlns) ==
  CASE method = "PROPFIND" ->
         <<<<extractDavPrefix(xmlns), DAV_NS>>, <<"C", CALDAV_NS>>, <<"CS", CS_NS>>>>
    [] method = "REPORT" -> reportNamespaces(xmlns).decls
    [] method = "PROPPATCH" -> <<<<extractDavPrefix(xmlns), DAV_NS>>, <<"APPLE", AppleNS>>>>

\* formatUnsupportedProperty, with <D: replaced by the DAV prefix
formatUnsupportedProperty(prop, davPrefix) ==
  IF prop \in {"calendar-color", "calendar-order", "calendar-description", "calendar-home-set",
               "supported-calendar-component-set", "schedule-tag", "email-address-set"}
  THEN "C"
  ELSE IF prop \in {"getctag", "created-by", "updated-by"} THEN "CS"
  ELSE davPrefix

\* PROPPATCH: getPropPrefix
getPropPrefix(namespace, davPrefix) ==
  IF namespace = AppleNS THEN "APPLE"
  ELSE IF namespace = CALDAV_NS THEN "C"
  ELSE IF namespace = CS_NS THEN "CS"
  ELSE davPrefix

\* The prefixes written on the elements of one property of a propstat.
propertyPrefixes(method, status, prop, xmlns, sets) ==
  LET davPrefix == extractDavPrefix(xmlns) IN
  CASE method = "PROPFIND" /\ status = 200 ->
         IF prop \in {"resourcetype", "calendar-home-set", "supported-report-set"}
           THEN {davPrefix, "C"}
         ELSE IF prop \in {"calendar-description", "supported-calendar-component-set"} THEN {"C"}
         ELSE IF prop = "getctag" THEN {"CS"}
         ELSE {davPrefix}
    [] method = "PROPFIND" /\ status # 200 ->
         {formatUnsupportedProperty(toLowerCase(prop), davPrefix)}
    [] method = "REPORT" ->
         IF prop = "getetag" THEN {davPrefix}
         ELSE IF prop \in {"calendar-data", "schedule-tag"}
           THEN {reportNamespaces(xmlns).caldavPropPrefix}
         ELSE {reportNamespaces(xmlns).csPropPrefix}
    [] method = "PROPPATCH" ->
         {getPropPrefix(q.namespace, davPrefix) :
            q \in {q \in UNION {sets[k] : k \in 1..Len(sets)} : q.name = prop}}

\* Every prefix written on an element of the multistatus document.
prefixesUsed(method, xmlns, sets, multistatus) ==
  {extractDavPrefix(xmlns)}
  \cup UNION {propertyPrefixes(method, multistatus.responses[i].propstats[j].status, prop, xmlns, sets) :
                <<i, j, prop>> \in
                  {t \in (1..Len(multistatus.responses)) \X (1..2) \X
                         (PropfindNames \cup propertyMap \cup ReportNames
                            \cup {q.name : q \in PatchProperties}) :
                     /\ t[2] <= Len(multistatus.responses[t[1]].propstats)
                     /\ t[3] \in multistatus.responses[t[1]].propstats[t[2]].props}}

\* A PROPFIND on the collection of calendar c whose body declares xmlns.
PropfindNs ==
  /\ req.pc = "idle"
  /\ \E c \in CalendarIds, header \in Depths, body \in PropfindBodies, xmlns \in Xmlns :
       /\ calendars[c] # NoRow
       /\ (body.kind = "none" => xmlns = NoXmlns)
       /\ req' = [pc |-> "done", method |-> "PROPFIND", calendar |-> c, slash |-> TRUE,
                  depth |-> header, report |-> "none", body |-> body, hrefs |-> <<>>,
                  sets |-> <<>>, xmlns |-> xmlns, resp |-> propfindCalendar(c, TRUE, header, body)]
  /\ UNCHANGED <<clock, calendars, events, caldavShares, nextCalendarId, nextEventId, wr, lastOp>>

ReportNs ==
  /\ req.pc = "idle"
  /\ \E c \in CalendarIds, r \in ReportRequests, xmlns \in Xmlns :
       /\ calendars[c] # NoRow
       /\ r.report \in {"calendar-query", "calendar-multiget"}
       /\ Len(r.hrefs) <= 1
       /\ req' = [pc |-> "done", method |-> "REPORT", calendar |-> c, slash |-> FALSE,
                  depth |-> "none", report |-> r.report, body |-> r.body, hrefs |-> r.hrefs,
                  sets |-> <<>>, xmlns |-> xmlns, resp |-> reportCalendar(c, r)]
  /\ UNCHANGED <<clock, calendars, events, caldavShares, nextCalendarId, nextEventId, wr, lastOp>>

ProppatchNs ==
  /\ req.pc = "idle"
  /\ \E c \in CalendarIds, sets \in SetBlocks, xmlns \in Xmlns :
       /\ calendars[c] # NoRow
       /\ Len(sets) <= 1
       /\ req' = [pc |-> "done", method |-> "PROPPATCH", calendar |-> c, slash |-> TRUE,
                  depth |-> "none", report |-> "none", body |-> NoBody, hrefs |-> <<>>,
                  sets |-> sets, xmlns |-> xmlns, resp |-> proppatchCalendar(c, TRUE, sets)]
  /\ UNCHANGED <<clock, calendars, events, caldavShares, nextCalendarId, nextEventId, wr, lastOp>>

NextNs ==
  \/ PropfindNs
  \/ ReportNs
  \/ ProppatchNs
  \/ Finish

SpecNs == InitDav /\ [][NextNs]_vars

(***************************************************************************)
(* GET of an event resource at different times (SpecGet)                   *)
(***************************************************************************)
\* new Date().toISOString().replace(/[-:]/g, "").split(".")[0] + "Z": the
\* instant cut to the second.
toISOSeconds(now) == now \div 1000

\* generateEventICS: the lines that depend on something else than the
\* event's own columns, and the UID.
generateEventICS(id, event, now) ==
  [uid |-> <<"event-">> \o toString10(id) \o <<"@glasscal.local">>,
   dtstamp |-> toISOSeconds(now)]

\* A second passes.
TickSecond ==
  /\ clock < 1000 * MaxTick
  /\ clock' = clock + 1000
  /\ UNCHANGED <<calendars, events, caldavShares, nextCalendarId, nextEventId, wr, lastOp, req>>

\* GET /calendars/:id/event-:eventId.ics with the credential of the event's
\* calendar; req keeps the response until the next one.
GetEventResource ==
  /\ \E id \in EventIds :
       /\ events[id] # NoRow
       /\ calendars[events[id].calendarId] # NoRow
       /\ req' = [pc |-> "done", method |-> "GET", calendar |-> events[id].calendarId,
                  eventId |-> id, resp |-> EventResource(id, events[id], clock),
                  ics |-> generateEventICS(id, events[id], clock)]
  /\ UNCHANGED <<clock, calendars, events, caldavShares, nextCalendarId, nextEventId, wr, lastOp>>

NextGet ==
  \/ TickSecond
  \/ updateEventSet
  \/ touchParent
  \/ GetEventResource
  \/ Finish

SpecGet == InitDav /\ [][NextGet]_vars

(***************************************************************************)
(* iCalendar text values (SpecICS)                                         *)
(***************************************************************************)
BS == "\\"
LF == "\n"
CR == "\r"
\* The characters of a title, description or location: two ordinary ones
\* and the ones escapeICS looks for.
ICSChars == {"a", "n", ",", ";", BS, LF, CR}
Texts == UNION {[1..n -> ICSChars] : n \in 0..MaxTextLen}

\* String.prototype.replace(/ch/g, by)
RECURSIVE replaceAll(_, _, _)
replaceAll(text, ch, by) ==
  IF text = <<>> THEN <<>>
  ELSE (IF Head(text) = ch THEN by ELSE <<Head(text)>>) \o replaceAll(Tail(text), ch, by)

escapeICS_backslashLast(text) ==
  IF text = <<>> THEN <<>>
  ELSE replaceAll(replaceAll(replaceAll(replaceAll(replaceAll(text,
         ",", <<BS, ",">>), ";", <<BS, ";">>), LF, <<BS, "n">>), CR, <<>>), BS, <<BS, BS>>)

escapeICS(text) ==
  IF text = <<>> THEN <<>>
  ELSE replaceAll(replaceAll(replaceAll(replaceAll(replaceAll(text,
         BS, <<BS, BS>>), ",", <<BS, ",">>), ";", <<BS, ";">>), LF, <<BS, "n">>), CR, <<>>)

\* Reading a TEXT value back (RFC 5545, 3.3.11): a backslash and the
\* character after it stand for a newline when that character is n or N, and
\* for that character itself otherwise.
RECURSIVE unescapeICS(_)
unescapeICS(text) ==
  IF text = <<>> THEN <<>>
  ELSE IF Head(text) = BS /\ Len(text) >= 2
    THEN (IF text[2] \in {"n", "N"} THEN <<LF>> ELSE <<text[2]>>) \o unescapeICS(Tail(Tail(text)))
  ELSE <<Head(text)>> \o unescapeICS(Tail(text))

\* generateEventICS writes a text value of an event.
EscapeText ==
  /\ req.pc = "text"
  /\ req' = [pc |-> "escaped", text |-> req.text, escaped |-> escapeICS(req.text)]
  /\ UNCHANGED <<clock, calendars, events, caldavShares, nextCalendarId, nextEventId, wr, lastOp>>

\* A client reads the value back.
UnescapeText ==
  /\ req.pc = "escaped"
  /\ req' = [pc |-> "unescaped", text |-> req.text, escaped |-> req.escaped,
             unescaped |-> unescapeICS(req.escaped)]
  /\ UNCHANGED <<clock, calendars, events, caldavShares, nextCalendarId, nextEventId, wr, lastOp>>

InitICS ==
  /\ clock = Instant(1)
  /\ calendars = [c \in CalendarIds |-> NoRow]
  /\ events = [e \in EventIds |-> NoRow]
  /\ caldavShares = [c \in CalendarIds |-> NoRow]
  /\ nextCalendarId = 1
  /\ nextEventId = 1
  /\ wr = IdleWr
  /\ lastOp = NoOp
  /\ req \in {[pc |-> "text", text |-> t] : t \in Texts}

NextICS == EscapeText \/ UnescapeText

SpecICS == InitICS /\ [][NextICS]_vars

(***************************************************************************)
(* Claims about the cache tokens and the storage mutations (Spec)          *)
(***************************************************************************)
EventMutations == {"createEvent", "updateEvent", "deleteEvent"}

\* A statement of a mutation applied to calendar d or to an event of d:
\* the first statement of createEvent/updateEvent/deleteEvent on an event
\* of d, the closing touch of such a mutation, or updateCalendar(d).
StepOn(d) ==
  \/ wr.pc = "idle" /\ wr'.pc = "touch" /\ wr'.cal = d
  \/ touchParent /\ wr.cal = d
  \/ updateCalendar /\ lastOp'.kind = "updateCalendar" /\ lastOp'.cal = d

\* The same, for mutations that do not move an event into calendar c.
StepOnAvoiding(d, c) ==
  \/ wr.pc = "idle" /\ wr'.pc = "touch" /\ wr'.cal = d /\ wr'.target # c
  \/ touchParent /\ wr.cal = d /\ wr.target # c
  \/ updateCalendar /\ lastOp'.kind = "updateCalendar" /\ lastOp'.cal = d

\* C1 (as claimed): when createEvent, updateEvent or deleteEvent on an event
\* of calendar c completes, the CTag of c differs from the CTag of c before
\* the operation.
C1_CTagChangesOnEventMutation ==
  [][touchParent => generateCTag(calendars'[wr.cal], clock') # wr.ctagBefore]_vars

\* C2 (as claimed): no statement of a mutation applied to calendar d, or to
\* an event of d, changes the CTag, collection ETag or sync-token of another
\* calendar c.
C2_OtherCalendarFrame ==
  [][\A c \in CalendarIds, d \in CalendarIds :
       (c # d /\ calendars[c] # NoRow /\ StepOn(d))
         => collectionTokens(c, calendars'[c], clock') = collectionTokens(c, calendars[c], clock)]_vars

\* C2 (amended): no createEvent, deleteEvent or updateCalendar applied to d,
\* and no updateEvent on an event of d that does not move the event into c,
\* changes the CTag, collection ETag or sync-token of another calendar c.
C2_OtherCalendarFrameUnlessMovedIn ==
  [][\A c \in CalendarIds, d \in CalendarIds :
       (c # d /\ calendars[c] # NoRow /\ StepOnAvoiding(d, c))
         => collectionTokens(c, calendars'[c], clock') = collectionTokens(c, calendars[c], clock)]_vars

\* An event mutation on calendar d has completed and stamped d with the
\* current clock reading while the other calendar c carries an older stamp.
C2_Witness ==
  \E c \in CalendarIds, d \in CalendarIds :
    /\ c # d /\ calendars[c] # NoRow /\ calendars[d] # NoRow
    /\ lastOp.kind \in EventMutations /\ lastOp.cal = d /\ lastOp.target = d
    /\ calendars[d].updatedAt = clock
    /\ calendars[c].updatedAt # NULL /\ calendars[c].updatedAt < clock

\* Every token the CalDAV layer reports, as a function of the stored rows
\* and of the clock reading at the time of the request.
AllTokens(cals, evs, now) ==
  [collections |-> [c \in CalendarIds |->
                      IF cals[c] = NoRow THEN <<>> ELSE collectionTokens(c, cals[c], now)],
   eventETags |-> [e \in EventIds |->
                      IF evs[e] = NoRow THEN <<>> ELSE generateEventETag(e, evs[e], now)]]

\* C3: across any step that leaves the stored calendar and event rows
\* unchanged (a clock advance, a restart, a request), the CTag, collection
\* ETag, sync-token and every event ETag are identical before and after.
C3_TokenDeterminism ==
  [][(calendars' = calendars /\ events' = events)
       => AllTokens(calendars', events', clock') = AllTokens(calendars, events, clock)]_vars

\* A calendar and an event were stored without updatedAt and the clock has
\* moved on since their creation.
C3_Witness ==
  /\ \E c \in CalendarIds :
       calendars[c] # NoRow /\ calendars[c].updatedAt = NULL /\ calendars[c].createdAt < clock
  /\ \E e \in EventIds :
       events[e] # NoRow /\ events[e].updatedAt = NULL /\ events[e].createdAt < clock

\* C4 (as claimed): when updateEvent on event e completes, the ETag of e
\* differs from the ETag of e before the update.
C4_ETagChangesOnUpdate ==
  [][(touchParent /\ wr.kind = "updateEvent")
       => generateEventETag(wr.ev, events'[wr.ev], clock') # wr.etagBefore]_vars

\* C5 (as claimed): for every stored calendar the collection ETag differs
\* from the CTag.
C5_CollectionETagDiffersFromCTag ==
  \A c \in CalendarIds :
    calendars[c] # NoRow
      => generateCollectionETag(calendars[c], clock) # generateCTag(calendars[c], clock)

(***************************************************************************)
(* Claims about authentication, routing and the read-only contract         *)
(* (SpecDav)                                                               *)
(***************************************************************************)
Answered == req.pc = "done"
Authenticated == Answered /\ req.handler \notin Unauthenticated
CredentialStored(auth) ==
  /\ auth # NoAuth
  /\ \E c \in CalendarIds :
       caldavShares[c] = [username |-> auth.username, password |-> auth.password]

\* C6: on every route behind caldavAuth, a request without a decodable
\* Basic pair gets 401 with the WWW-Authenticate: Basic header, a request
\* whose password differs from the resolved credential's password gets 401,
\* and a PROPFIND whose username was found and whose username and password
\* are those of a stored credential gets 207.
C6_AuthenticationOutcome ==
  Authenticated =>
    /\ req.auth = NoAuth =>
         (req.resp.status = 401 /\ req.resp.wwwAuthenticate = Realm)
    /\ (req.auth # NoAuth /\ req.share # NoRow /\ req.share.password # req.auth.password) =>
         req.resp.status = 401
    /\ (req.method = "PROPFIND" /\ req.via = "username" /\ CredentialStored(req.auth)) =>
         req.resp.status = 207

\* C7: caldavAuth hands the request to the handler only if the password
\* equals the resolved credential's password and, when the credential was
\* resolved through the calendar id of the path, the username equals the
\* credential's username too.
C7_NextOnlyIfCredentialsMatch ==
  req.pc = "handler" =>
    /\ req.share # NoRow
    /\ req.share.password = req.auth.password
    /\ (req.via = "id" => req.share.username = req.auth.username)

C9_RootOptionsExempt ==
  (Answered /\ req.method = "OPTIONS") =>
    /\ req.resource = "root" =>
         /\ req.resp.status = 200
         /\ req.resp.allow # ""
         /\ "calendar-access" \in req.resp.dav
         /\ req.lookups = 0
    /\ (req.resource \in {"principals", "principal", "principalSub"} /\ req.auth = NoAuth) =>
         req.resp.status = 401

\* OPTIONS on the root without an Authorization header, answered, while a
\* credential is stored.
C9_Witness ==
  /\ Answered
  /\ req.method = "OPTIONS"
  /\ req.resource = "root"
  /\ req.auth = NoAuth
  /\ req.resp.status = 200
  /\ \E c \in CalendarIds : caldavShares[c] # NoRow

\* C10: no step of a CalDAV request changes a stored calendar, event or
\* credential, and PUT and DELETE on the calendar collection and on an event
\* resource of it, sent with a stored credential of that calendar, are
\* answered with a success status.
C10_ReadOnlyAndNoOpWrites ==
  [][/\ RequestStep => store' = store
     /\ (/\ req'.pc = "done"
         /\ req.pc # "done"
         /\ req'.method \in {"PUT", "DELETE"}
         /\ req'.resource \in {"calendar", "event"}
         /\ req'.id \in CalendarIds
         /\ calendars'[req'.id] # NoRow
         /\ req'.auth # NoAuth
         /\ caldavShares'[req'.id] = [username |-> req'.auth.username, password |-> req'.auth.password]
         /\ (req'.resource = "event" =>
               (/\ req'.eventId \in EventIds
                /\ events'[req'.eventId] # NoRow
                /\ events'[req'.eventId].calendarId = req'.id)))
        => req'.resp.status \in 200..299]_vars

\* The methods a route handler has a branch for; the schedule-inbox and
\* schedule-outbox handlers answer every method alike.
implemented(handler, method) ==
  CASE handler \in {"optionsRoot", "optionsCalendars", "optionsPrincipals", "optionsCalendar",
                    "automaticOptions"} -> method = "OPTIONS"
    [] handler \in {"rootAll", "principalsAll"} -> method \in {"PROPFIND", "POST"}
    [] handler = "getCalendar" -> method = "GET"
    [] handler = "calendarAll" ->
         method \in {"PROPFIND", "REPORT", "PROPPATCH", "POST", "PUT", "DELETE"}
    [] handler = "principalSubAll" -> method \in {"OPTIONS", "PROPFIND"}
    [] handler = "principalAll" -> method \in {"OPTIONS", "PROPFIND", "POST"}
    [] handler = "scheduleStub" -> TRUE
    [] handler = "getEvent" -> method = "GET"
    [] handler = "unmatched" -> FALSE

\* caldavAuth called next() for the answered request.
PassedAuth ==
  /\ Authenticated
  /\ req.auth # NoAuth
  /\ ~authRejects(req.share, req.auth, hasParamsId(req.resource))

\* C18: a method on a CalDAV path for which no handler has a branch, sent
\* with accepted credentials where the path asks for them, is answered 501
\* with the XML error body, and never 200.
C18_UnimplementedIs501 ==
  (/\ Answered
   /\ ~implemented(req.handler, req.method)
   /\ (req.handler \in Unauthenticated \/ (PassedAuth /\ req.calendar # NoRow))) =>
    /\ req.resp.status = 501
    /\ req.resp.body = "Method not implemented"

\* C19: GET of an event resource, once caldavAuth accepted the credentials,
\* is answered 404 "Event not found" without event data when the event id
\* names no stored event or the event is not of the authenticated calendar,
\* and otherwise with the event's iCalendar text and its ETag.
C19_GetEventOutcome ==
  (PassedAuth /\ req.handler = "getEvent") =>
    IF /\ req.eventId \in EventIds
       /\ events[req.eventId] # NoRow
       /\ req.calendar # NoRow
       /\ events[req.eventId].calendarId = req.calendar.id
    THEN /\ req.resp.status = 200
         /\ req.resp.entity = req.eventId
         /\ req.resp.etag = generateEventETag(req.eventId, events[req.eventId], clock)
    ELSE /\ req.resp.status = 404
         /\ req.resp.body = "Event not found"
         /\ req.resp.entity = 0

\* caldavAuth and the handler of the request in flight, up to the response.
InFlight == {"byUsername", "byCalendarId", "getCalendar", "handler"}
RequestProgress == AuthByUsername \/ AuthByCalendarId \/ AuthGetCalendar \/ Handle

C26_Isolation ==
  (Authenticated /\ req.resp.status \in 200..299) =>
    /\ req.share # NoRow
    /\ req.share.password = req.auth.password
    /\ req.resp.calendar \in {0, req.share.calendarId}
    /\ \A e \in req.resp.events :
         events[e] # NoRow /\ events[e].calendarId = req.share.calendarId

\* A Depth 1 PROPFIND on the path of another calendar than the credential's,
\* answered with the events of the credential's calendar.
C26_Witness ==
  /\ Authenticated
  /\ req.method = "PROPFIND"
  /\ req.resource = "calendar"
  /\ req.resp.status = 207
  /\ req.id \in CalendarIds
  /\ req.id # req.share.calendarId
  /\ calendars[req.id] # NoRow
  /\ req.resp.calendar = req.share.calendarId
  /\ req.resp.events # {}

\* C29: whenever caldavAuth has called next(), the calendar attached to the
\* request is a stored calendar, also when the statements of deleteCalendar
\* fall between the steps of the request.
C29_HandlerHasCalendar ==
  req.pc = "handler" => (req.calendar # NoRow /\ calendars[req.calendar.id] # NoRow)

(***************************************************************************)
(* Claims about the multistatus of PROPFIND, REPORT and PROPPATCH          *)
(* (SpecProps)                                                             *)
(***************************************************************************)
AnsweredMethod(method) == req.pc = "done" /\ req.method = method
Responses == req.resp.responses
In(status, response, prop) ==
  \E i \in 1..Len(response.propstats) :
    /\ response.propstats[i].status = status
    /\ \E n \in response.propstats[i].props : toLowerCase(n) = prop
Has(status, response) ==
  \E i \in 1..Len(response.propstats) : response.propstats[i].status = status
StoredUnder(calendarId) ==
  {e \in EventIds : events[e] # NoRow /\ events[e].calendarId = calendarId}

\* C11: in a calendar-query or calendar-multiget REPORT that asks for
\* calendar-data and not for getetag, every response with a 200 propstat has
\* getetag as well as calendar-data in it.
C11_ETagPairedWithCalendarData ==
  (/\ AnsweredMethod("REPORT")
   /\ req.report \in {"calendar-query", "calendar-multiget"}
   /\ req.body.kind = "prop"
   /\ "calendar-data" \in req.body.names
   /\ "getetag" \notin req.body.names) =>
    \A i \in 1..Len(Responses) :
      Has(200, Responses[i]) =>
        (In(200, Responses[i], "getetag") /\ In(200, Responses[i], "calendar-data"))

\* A REPORT asking for calendar-data only, answered with an event.
C11_Witness ==
  /\ AnsweredMethod("REPORT")
  /\ req.body = PropElement({"calendar-data"})
  /\ \E i \in 1..Len(Responses) :
       In(200, Responses[i], "getetag") /\ In(200, Responses[i], "calendar-data")

\* The property names the parser found in the request.
ParsedRequested ==
  IF req.method = "PROPFIND" THEN parsePropfindProperties(req.body)
  ELSE parseRequestedProperties(req.body) \cup unsupportedRequested(req.body)

\* C12: in every multistatus of a PROPFIND or REPORT, each response element
\* of a resource that was found lists each parsed requested property in its
\* 200 propstat or in its 404 propstat, and not in both.
C12_EachRequestedPropertyOnce ==
  ((AnsweredMethod("PROPFIND") \/ AnsweredMethod("REPORT")) /\ req.resp.kind = "multistatus") =>
    \A i \in 1..Len(Responses) :
      Responses[i].status = 0 =>
        \A prop \in ParsedRequested :
          /\ In(200, Responses[i], prop) \/ In(404, Responses[i], prop)
          /\ ~(In(200, Responses[i], prop) /\ In(404, Responses[i], prop))

\* C13: a PROPFIND with Depth 0 or without Depth header is answered with the
\* collection's response element alone; with Depth 1, with the collection's
\* element followed by exactly one element per event stored under the
\* calendar, none included.
C13_DepthDecidesEventResponses ==
  (AnsweredMethod("PROPFIND") /\ req.depth \in {"none", "0", "1"}) =>
    /\ Len(Responses) >= 1
    /\ Responses[1].href = relativeHref(req.calendar, req.slash)
    /\ IF req.depth = "1"
       THEN /\ Len(Responses) = 1 + Cardinality(StoredUnder(req.calendar))
            /\ \A e \in StoredUnder(req.calendar) :
                 Cardinality({i \in 2..Len(Responses) :
                    Responses[i].href = eventRelativeHref(req.calendar, req.slash, e)}) = 1
       ELSE Len(Responses) = 1

\* A Depth 1 PROPFIND on a calendar that holds every event.
C13_Witness ==
  /\ AnsweredMethod("PROPFIND")
  /\ req.depth = "1"
  /\ Cardinality(StoredUnder(req.calendar)) = MaxEvents
  /\ Len(Responses) = 1 + MaxEvents

RequestedHrefs == SelectSeq(req.hrefs, LAMBDA h : h.kind # "mailto")

C15_EventResponsesCarryETag ==
  (AnsweredMethod("PROPFIND") /\ req.depth = "1") =>
    \A i \in 2..Len(Responses) :
      In(200, Responses[i], "getetag") /\ In(200, Responses[i], "getcontenttype")

\* C16: the response to a PROPPATCH names every property of every set
\* element of the body, in its 200 or in its 403 propstat.
C16_ProppatchEchoesEveryProperty ==
  AnsweredMethod("PROPPATCH") =>
    \A k \in 1..Len(req.sets) : \A prop \in req.sets[k] :
      In(200, Responses[1], prop.name) \/ In(403, Responses[1], prop.name)

\* The Apple calendar-order and calendar-color properties a PROPPATCH sets.
AppleSubmitted ==
  {prop.name : prop \in {q \in UNION {req.sets[k] : k \in 1..Len(req.sets)} :
                           q.namespace = AppleNS /\ q.name \in {"calendar-order", "calendar-color"}}}

\* C17: a PROPPATCH that sets calendar-order or calendar-color is answered
\* with each of them under 200 and with no 403 propstat, and a PROPFIND for
\* them that follows is answered with them under 200 and not under 404.
C17_AppleOrderAndColorAccepted ==
  (AnsweredMethod("PROPPATCH") /\ AppleSubmitted # {}) =>
    /\ \A name \in AppleSubmitted : In(200, Responses[1], name)
    /\ ~Has(403, Responses[1])
    /\ LET later == propfindCollection(req.calendar, req.slash, PropElement(AppleSubmitted))
       IN \A name \in AppleSubmitted : In(200, later, name) /\ ~In(404, later, name)

C24_UpdatedAtNeverDecreases ==
  [][\A c \in CalendarIds :
       (calendars[c] # NoRow /\ calendars'[c] # NoRow) =>
         calendars'[c].updatedAt >= calendars[c].updatedAt]_vars

\* C25: no PROPFIND that lists the events of a calendar is answered from a
\* state in which a createEvent, updateEvent or deleteEvent on that calendar
\* has changed the events while the calendar's CTag is still the one from
\* before the mutation.
C25_MutationAtomicForReads ==
  (AnsweredMethod("PROPFIND") /\ req.depth = "1") =>
    ~(/\ wr.pc = "touch"
      /\ wr.kind \in {"createEvent", "updateEvent", "deleteEvent"}
      /\ wr.cal = req.calendar
      /\ wr.target = req.calendar
      /\ generateCTag(calendars[req.calendar], clock) = wr.ctagBefore)

(***************************************************************************)
(* Claims about the response elements and their hrefs (SpecProps)          *)
(***************************************************************************)
\* C28: every response element of a PROPFIND or REPORT multistatus has at
\* least one propstat or a top-level status.
C28_ResponseHasPropstatOrStatus ==
  ((AnsweredMethod("PROPFIND") \/ AnsweredMethod("REPORT")) /\ req.resp.kind = "multistatus") =>
    \A i \in 1..Len(Responses) : Responses[i].propstats # <<>> \/ Responses[i].status # 0

\* The calendar-home-set hrefs of the answered PROPFIND.
HomeSetHrefs ==
  IF AnsweredMethod("PROPFIND") /\ "calendar-home-set" \in propfindRequested(req.body)
  THEN {calendarHomeSet(req.calendar, req.slash)}
  ELSE {}

\* C30: whatever the trailing slash of the request path, a Depth 1 PROPFIND
\* names each event /caldav/calendars/<calendarId>/event-<eventId>.ics, the
\* path GET serves that event under, and every calendar-home-set href is
\* /caldav/calendars/<calendarId>/.
C30_HrefsNameRoutedResources ==
  AnsweredMethod("PROPFIND") =>
    /\ \A i \in 2..Len(Responses) :
         \E e \in EventIds :
           /\ e \in StoredUnder(req.calendar)
           /\ Responses[i].href = eventRelativeHref(req.calendar, TRUE, e)
    /\ \A h \in HomeSetHrefs : h = relativeHref(req.calendar, TRUE)

(***************************************************************************)
(* Claims about the event resource (SpecGet)                               *)
(***************************************************************************)
\* C27: two responses for the same event that carry the same ETag carry the
\* same iCalendar text, whatever time passed between them.
C27_SameETagSameBody ==
  [][(/\ req.pc = "done"
      /\ req'.pc = "done"
      /\ req'.eventId = req.eventId
      /\ req'.resp.etag = req.resp.etag) => req'.ics = req.ics]_vars

(***************************************************************************)
(* Claims about the namespaces of a multistatus (SpecNs)                   *)
(***************************************************************************)
Declarations == rootDeclarations(req.method, req.xmlns)

\* C21: in every multistatus, each prefix written on an element is declared
\* exactly once on the multistatus root, no prefix is declared for two
\* namespaces, and no namespace is declared under two prefixes, whatever
\* prefixes the request body binds.
C21_OnePrefixPerNamespace ==
  (req.pc = "done" /\ req.resp.kind = "multistatus") =>
    /\ \A p \in prefixesUsed(req.method, req.xmlns, req.sets, req.resp) :
         Cardinality({i \in 1..Len(Declarations) : Declarations[i][1] = p}) = 1
    /\ \A i, j \in 1..Len(Declarations) :
         i # j => (Declarations[i][1] # Declarations[j][1] /\ Declarations[i][2] # Declarations[j][2])

(***************************************************************************)
(* Claims about iCalendar text (SpecICS)                                   *)
(***************************************************************************)
Contains(text, ch) == \E i \in 1..Len(text) : text[i] = ch

\* C20: for every text of ordinary characters, commas, semicolons,
\* backslashes and newlines, reading back what escapeICS wrote gives the
\* text again.
C20_EscapeRoundTrip ==
  (req.pc = "unescaped" /\ ~Contains(req.text, CR)) => req.unescaped = req.text

\* A text of full length with a backslash in front of an n, read back.
C20_Witness ==
  /\ req.pc = "unescaped"
  /\ Len(req.text) = MaxTextLen
  /\ ~Contains(req.text, CR)
  /\ \E i \in 1..(Len(req.text) - 1) : req.text[i] = BS /\ req.text[i + 1] = "n"
  /\ Len(req.escaped) > Len(req.text)

====
